---- MODULE Spec2Model ----
(***************************************************************************)
(* Model of process_leowasp.py: the top-level script that reduces LEOWASP  *)
(* images and extracts aperture photometry from them.                      *)
(*                                                                         *)
(* The script is a straight line of set-up statements followed by one loop *)
(* over the filtered science frames.  Every statement (or group of         *)
(* statements that cannot be interleaved with anything) is one action; pc  *)
(* is the script's position.  The jastro / donuts / os routines the script *)
(* calls are collaborators: each call is appended to `trace` with the      *)
(* arguments the script passed and the value it got back, and the value a  *)
(* collaborator returns is drawn from a small set.                         *)
(*                                                                         *)
(* Shifts are fixed-point numbers in units of 1/1000 pixel.                *)
(***************************************************************************)
EXTENDS Integers, Sequences, FiniteSets, TLC

\* ------------------------------------------------------------------ bounds

\* Largest number of image files in the working directory.
MaxImages == 2

\* ------------------------------------------------- configuration and inputs

None == "None"

\* inst_config['imager']['image_keyword'] and the other image types on disk.
image_keyword == "sci"
dark_keyword == "dark"

\* night_config['filter'] and another filter present on disk.
NightFilter == "V"
OtherFilter == "R"

\* The kinds of file get_image_list() may find.
FrameKinds ==
    { [imagetyp |-> image_keyword, filter |-> NightFilter],
      [imagetyp |-> image_keyword, filter |-> OtherFilter],
      [imagetyp |-> dark_keyword,  filter |-> NightFilter] }

\* The value of night_config['max_donuts_shift'] (1/1000 pixel).
MaxShiftVals == {1000}

\* Shift vectors Donuts.measure_shift may return (1/1000 pixel): well inside
\* the tolerance, one axis outside, both axes on the boundary (the vector's
\* length outside), just outside by less than the rounding step, and on a
\* rounding tie.
ShiftSet ==
    { [x |-> 500,   y |-> 900],
      [x |-> 30,    y |-> 1200],
      [x |-> -1000, y |-> 1000],
      [x |-> 1004,  y |-> 0],
      [x |-> 0,     y |-> -1005] }

\* The apertures written in night_config['region_file'].
RegionFile ==
    [x |-> <<100, 200>>, y |-> <<100, 200>>, rsi |-> <<5, 5>>, rso |-> <<10, 10>>]

\* What j.coords.recenter_stars may return for the positions (px, py): arrays
\* of the same length, every aperture left in place (no source close enough)
\* or the first one moved onto a source.
RecenterResults(px, py) ==
    { [x |-> px, y |-> py],
      [x |-> [i \in DOMAIN px |-> IF i = 1 THEN px[i] + 1 ELSE px[i]],
       y |-> [i \in DOMAIN py |-> IF i = 1 THEN py[i] - 1 ELSE py[i]]] }

\* What j.reduce.make_master_dark_osc may return: (master_dark, dark_exp).
DarkResults ==
    { [master_dark |-> None, dark_exp |-> None],
      [master_dark |-> "master_dark", dark_exp |-> "30s"] }

\* What j.reduce.make_master_flat_osc may return.
FlatResults == {None, "master_flat"}

\* ---------------------------------------------------------------- state

VARIABLES
    pc,             \* position in the script
    night_config,   \* the night's configuration (read-only mapping)
    disk,           \* the image files in the working directory
    fs,             \* failed_donuts exists?, files moved into it
    run1,           \* which run this is, the directory it started from, and
                    \* what an earlier run on the same inputs left behind
    ds9, ds9_window_id, draw_regions,
    location,
    x, y, rsi, rso, \* the aperture set
    d,              \* the Donuts aligner
    images,
    master_dark, dark_exp, master_flat,
    files, idx,     \* the list the for loop iterates over, and its position
    filename,
    data, jd, bjd, hjd,
    shift, sx, sy,
    trace           \* every collaborator call so far, in order

cfgVars   == <<night_config, disk, run1>>
ds9Vars   == <<ds9, ds9_window_id, draw_regions>>
apVars    == <<x, y, rsi, rso>>
calVars   == <<master_dark, dark_exp, master_flat>>
loopVars  == <<files, idx, filename>>
frameVars == <<data, jd, bjd, hjd>>
shiftVars == <<shift, sx, sy>>

vars == <<pc, night_config, disk, fs, run1, ds9, ds9_window_id, draw_regions,
          location, x, y, rsi, rso, d, images, master_dark, dark_exp,
          master_flat, files, idx, filename, data, jd, bjd, hjd,
          shift, sx, sy, trace>>

\* ---------------------------------------------------------------- helpers

\* One entry of the call trace.
Call(op, file, args, ret) == [op |-> op, file |-> file, args |-> args, ret |-> ret]

\* All sequences over S of length at most n.
SeqsUpTo(S, n) == UNION { [1..k -> S] : k \in 0..n }

\* A value a script variable holds before its first assignment.
Unset == "unset"

\* data, jd, bjd and hjd before the first correction.
NoData == [file |-> 0, master_dark |-> Unset, master_flat |-> Unset, dark_exp |-> Unset]
NoTime(std) == [file |-> 0, std |-> std]

\* What j.reduce.correct_data_osc returns for file f and the masters passed:
\* the corrected pixels and the three time stamps of that frame.
CorrectResult(f, md, mf, de) ==
    [data |-> [file |-> f, master_dark |-> md, master_flat |-> mf, dark_exp |-> de],
     jd   |-> [file |-> f, std |-> "jd"],
     bjd  |-> [file |-> f, std |-> "bjd"],
     hjd  |-> [file |-> f, std |-> "hjd"]]

Abs(v) == IF v < 0 THEN -v ELSE v

\* round(v, 2) of a value in 1/1000 pixel: the nearest multiple of 10.  A
\* value ending in 5 stands for a binary float just below or just above the
\* decimal tie, so either neighbour may come out.
Round2(v) ==
    LET a   == Abs(v)
        lo  == (a \div 10) * 10
        r   == a % 10
        sgn == IF v < 0 THEN -1 ELSE 1
    IN  IF r < 5 THEN {sgn * lo}
        ELSE IF r > 5 THEN {sgn * (lo + 10)}
        ELSE {sgn * lo, sgn * (lo + 10)}

\* GateRejects comparing with >= in place of >.
GateRejectsAtBoundary(rsx, rsy, maxShift) ==
    LET shifts == <<Abs(rsx), Abs(rsy)>>
    IN  Cardinality({i \in 1..2 : shifts[i] >= maxShift}) > 0

\* np.sum(np.array([abs(sx), abs(sy)]) > max_donuts_shift) > 0
GateRejects(rsx, rsy, maxShift) ==
    LET shifts == <<Abs(rsx), Abs(rsy)>>
    IN  Cardinality({i \in 1..2 : shifts[i] > maxShift}) > 0

\* images.files_filtered(imagetyp=..., filter=...): the names (positions on
\* disk) of the matching files, in the list's own order.
RECURSIVE FilterFrom(_, _, _, _)
FilterFrom(imgs, i, typ, filt) ==
    IF i > Len(imgs) THEN <<>>
    ELSE (IF imgs[i].imagetyp = typ /\ imgs[i].filter = filt THEN <<i>> ELSE <<>>)
         \o FilterFrom(imgs, i + 1, typ, filt)

files_filtered(imgs, typ, filt) == FilterFrom(imgs, 1, typ, filt)

\* The script's variables before its first statement.
Fresh ==
    /\ pc = "start"
    /\ ds9 = FALSE /\ ds9_window_id = Unset /\ draw_regions = FALSE
    /\ location = Unset
    /\ x = <<>> /\ y = <<>> /\ rsi = <<>> /\ rso = <<>>
    /\ d = Unset
    /\ images = <<>>
    /\ master_dark = Unset /\ dark_exp = Unset /\ master_flat = Unset
    /\ files = <<>> /\ idx = 0 /\ filename = 0
    /\ data = NoData /\ jd = NoTime("jd") /\ bjd = NoTime("bjd") /\ hjd = NoTime("hjd")
    /\ shift = [x |-> 0, y |-> 0] /\ sx = 0 /\ sy = 0
    /\ trace = <<>>

Init ==
    /\ night_config \in [ds9 : BOOLEAN, defocused : BOOLEAN,
                         max_donuts_shift : MaxShiftVals]
    /\ disk \in SeqsUpTo(FrameKinds, MaxImages)
    /\ fs \in [failed_donuts : BOOLEAN, moved : {{}}]
    /\ run1 = [n |-> 1, fs0 |-> fs, trace |-> <<>>, pc |-> "start", fs |-> fs]
    /\ Fresh

\* ---------------------------------------------------------------- set-up

\* Lines 61-69: set up DS9.
SetupDS9 ==
    /\ pc = "start"
    /\ ds9' = night_config.ds9
    /\ IF night_config.ds9
       THEN /\ ds9_window_id' = "window_id"
            /\ draw_regions' = TRUE
            /\ trace' = Append(trace, Call("ds9.setup", 0, "window_id", None))
       ELSE /\ ds9_window_id' = None
            /\ draw_regions' = FALSE
            /\ trace' = trace
    /\ pc' = "location"
    /\ UNCHANGED <<cfgVars, fs, location, apVars, d, images, calVars, loopVars,
                   frameVars, shiftVars>>

\* Lines 71-74: the observatory EarthLocation.
SetupLocation ==
    /\ pc = "location"
    /\ location' = "EarthLocation"
    /\ pc' = "region"
    /\ UNCHANGED <<cfgVars, fs, ds9Vars, apVars, d, images, calVars, loopVars,
                   frameVars, shiftVars, trace>>

\* Line 77: read the apertures from the region file.
ReadRegionFile ==
    /\ pc = "region"
    /\ x' = RegionFile.x /\ y' = RegionFile.y
    /\ rsi' = RegionFile.rsi /\ rso' = RegionFile.rso
    /\ trace' = Append(trace, Call("read_region_file", 0, "region_file", RegionFile))
    /\ pc' = "recenter"
    /\ UNCHANGED <<cfgVars, fs, ds9Vars, location, d, images, calVars, loopVars,
                   frameVars, shiftVars>>

\* Recenter without the test of night_config['defocused'].
RecenterAlways ==
    /\ pc = "recenter"
    /\ \E r \in RecenterResults(x, y) :
          /\ x' = r.x /\ y' = r.y
          /\ trace' = trace \o
               << Call("source_extract", 0,
                       [image |-> "reference_image", rsi |-> rsi, rso |-> rso],
                       "sources"),
                  Call("recenter_stars", 0,
                       [x |-> x, y |-> y, sources |-> "sources"], r) >>
    /\ pc' = "donuts"
    /\ UNCHANGED <<cfgVars, fs, ds9Vars, location, rsi, rso, d, images, calVars,
                   loopVars, frameVars, shiftVars>>

\* Lines 79-84: if not defocused, extract the sources and recenter.
Recenter ==
    /\ pc = "recenter"
    /\ IF ~night_config.defocused
       THEN \E r \in RecenterResults(x, y) :
                /\ x' = r.x /\ y' = r.y
                /\ trace' = trace \o
                     << Call("source_extract", 0,
                             [image |-> "reference_image", rsi |-> rsi, rso |-> rso],
                             "sources"),
                        Call("recenter_stars", 0,
                             [x |-> x, y |-> y, sources |-> "sources"], r) >>
       ELSE UNCHANGED <<x, y, trace>>
    /\ pc' = "donuts"
    /\ UNCHANGED <<cfgVars, fs, ds9Vars, location, rsi, rso, d, images, calVars,
                   loopVars, frameVars, shiftVars>>

\* Line 87: set up the reference image.
InitDonuts ==
    /\ pc = "donuts"
    /\ d' = "Donuts(reference_image)"
    /\ trace' = Append(trace, Call("Donuts", 0, "reference_image",
                                   "Donuts(reference_image)"))
    /\ pc' = "image_list"
    /\ UNCHANGED <<cfgVars, fs, ds9Vars, location, apVars, images, calVars,
                   loopVars, frameVars, shiftVars>>

\* Line 90: get the list of all images.
GetImageList ==
    /\ pc = "image_list"
    /\ images' = disk
    /\ pc' = "dark"
    /\ UNCHANGED <<cfgVars, fs, ds9Vars, location, apVars, d, calVars, loopVars,
                   frameVars, shiftVars, trace>>

\* The display of a master frame and the settle delay after it.
DisplayMaster(name) ==
    << Call("ds9.display", 0, [window |-> ds9_window_id, what |-> name], None),
       Call("sleep", 0, "5", None) >>

\* MakeMasterDark without the `is not None` test before the display.
MakeMasterDarkAlwaysDisplays ==
    /\ pc = "dark"
    /\ \E r \in DarkResults :
          /\ master_dark' = r.master_dark
          /\ dark_exp' = r.dark_exp
          /\ trace' = Append(trace, Call("make_master_dark_osc", 0,
                                         [images |-> images], r))
                      \o (IF ds9
                          THEN DisplayMaster("master_dark_filename") ELSE <<>>)
    /\ pc' = "flat"
    /\ UNCHANGED <<cfgVars, fs, ds9Vars, location, apVars, d, images, master_flat,
                   loopVars, frameVars, shiftVars>>

\* Lines 100-108: make the master dark.
MakeMasterDark ==
    /\ pc = "dark"
    /\ \E r \in DarkResults :
          /\ master_dark' = r.master_dark
          /\ dark_exp' = r.dark_exp
          /\ trace' = Append(trace, Call("make_master_dark_osc", 0,
                                         [images |-> images], r))
                      \o (IF r.master_dark # None /\ ds9
                          THEN DisplayMaster("master_dark_filename") ELSE <<>>)
    /\ pc' = "flat"
    /\ UNCHANGED <<cfgVars, fs, ds9Vars, location, apVars, d, images, master_flat,
                   loopVars, frameVars, shiftVars>>

\* MakeMasterFlat leaving the master dark out of the flat builder's arguments.
MakeMasterFlatNoDark ==
    /\ pc = "flat"
    /\ \E r \in FlatResults :
          /\ master_flat' = r
          /\ trace' = Append(trace, Call("make_master_flat_osc", 0,
                                         [images |-> images, filter |-> NightFilter,
                                          master_dark |-> None,
                                          dark_exp |-> None], r))
                      \o (IF r # None /\ ds9
                          THEN DisplayMaster("master_flat_filename") ELSE <<>>)
    /\ pc' = "loop_init"
    /\ UNCHANGED <<cfgVars, fs, ds9Vars, location, apVars, d, images, master_dark,
                   dark_exp, loopVars, frameVars, shiftVars>>

\* Lines 110-119: make the master flat.
MakeMasterFlat ==
    /\ pc = "flat"
    /\ \E r \in FlatResults :
          /\ master_flat' = r
          /\ trace' = Append(trace, Call("make_master_flat_osc", 0,
                                         [images |-> images, filter |-> NightFilter,
                                          master_dark |-> master_dark,
                                          dark_exp |-> dark_exp], r))
                      \o (IF r # None /\ ds9
                          THEN DisplayMaster("master_flat_filename") ELSE <<>>)
    /\ pc' = "loop_init"
    /\ UNCHANGED <<cfgVars, fs, ds9Vars, location, apVars, d, images, master_dark,
                   dark_exp, loopVars, frameVars, shiftVars>>

\* ------------------------------------------------------- per-frame loop

\* FilesFiltered skipping the loop when a master is absent.
FilesFilteredNeedsMasters ==
    /\ pc = "loop_init"
    /\ files' = IF master_dark = None \/ master_flat = None
                THEN <<>>
                ELSE files_filtered(images, image_keyword, NightFilter)
    /\ idx' = 0
    /\ pc' = "loop"
    /\ UNCHANGED <<cfgVars, fs, ds9Vars, location, apVars, d, images, calVars,
                   filename, frameVars, shiftVars, trace>>

\* Lines 122-123: the for statement evaluates files_filtered once.
FilesFiltered ==
    /\ pc = "loop_init"
    /\ files' = files_filtered(images, image_keyword, NightFilter)
    /\ idx' = 0
    /\ pc' = "loop"
    /\ UNCHANGED <<cfgVars, fs, ds9Vars, location, apVars, d, images, calVars,
                   filename, frameVars, shiftVars, trace>>

\* Lines 122-126: take the next file name, or leave the loop; display the
\* raw frame when DS9 is on.
LoopHead ==
    /\ pc = "loop"
    /\ IF idx < Len(files)
       THEN /\ idx' = idx + 1
            /\ filename' = files[idx + 1]
            /\ trace' = trace \o
                 (IF ds9
                  THEN << Call("ds9.display", files[idx + 1],
                               [window |-> ds9_window_id, what |-> "frame"], None) >>
                  ELSE <<>>)
            /\ pc' = "correct"
       ELSE /\ pc' = "done"
            /\ UNCHANGED <<idx, filename, trace>>
    /\ UNCHANGED <<cfgVars, fs, ds9Vars, location, apVars, d, images, calVars,
                   files, frameVars, shiftVars>>

\* The raw image file named f, as an argument of a call that reads the file.
RawFile(f) == [raw |-> f]

\* The arguments of the correct_data_osc call of lines 128-135.
CorrectArgs ==
    [filename |-> filename, filter |-> NightFilter, location |-> location,
     master_dark |-> master_dark, master_flat |-> master_flat,
     dark_exp |-> dark_exp]

\* CorrectReturns calling correct_data_osc twice for the frame.
CorrectReturnsTwice ==
    /\ pc = "correct"
    /\ LET r == CorrectResult(filename, master_dark, master_flat, dark_exp)
       IN  /\ data' = r.data /\ jd' = r.jd /\ bjd' = r.bjd /\ hjd' = r.hjd
           /\ trace' = trace \o
                << Call("correct_data_osc", filename, CorrectArgs, r),
                   Call("correct_data_osc", filename, CorrectArgs, r) >>
    /\ pc' = "measure"
    /\ UNCHANGED <<cfgVars, fs, ds9Vars, location, apVars, d, images, calVars,
                   loopVars, shiftVars>>

\* Lines 127-135: correct the frame and compute its time stamps.
CorrectReturns ==
    /\ pc = "correct"
    /\ LET r == CorrectResult(filename, master_dark, master_flat, dark_exp)
       IN  /\ data' = r.data /\ jd' = r.jd /\ bjd' = r.bjd /\ hjd' = r.hjd
           /\ trace' = Append(trace, Call("correct_data_osc", filename, CorrectArgs, r))
    /\ pc' = "measure"
    /\ UNCHANGED <<cfgVars, fs, ds9Vars, location, apVars, d, images, calVars,
                   loopVars, shiftVars>>

\* What the trace holds in place of correct_data_osc's return value when the
\* call raised.
CorrectionError == [raised |-> "CorrectionError"]

\* CorrectRaises with the exception caught per frame: the loop goes on.
CorrectRaisesSkipsFrame ==
    /\ pc = "correct"
    /\ trace' = Append(trace, Call("correct_data_osc", filename, CorrectArgs,
                                   CorrectionError))
    /\ pc' = "loop"
    /\ UNCHANGED <<cfgVars, fs, ds9Vars, location, apVars, d, images, calVars,
                   loopVars, frameVars, shiftVars>>

\* Lines 127-135 when correct_data_osc raises: nothing catches it, the
\* script ends.
CorrectRaises ==
    /\ pc = "correct"
    /\ trace' = Append(trace, Call("correct_data_osc", filename, CorrectArgs,
                                   CorrectionError))
    /\ pc' = "crashed"
    /\ UNCHANGED <<cfgVars, fs, ds9Vars, location, apVars, d, images, calVars,
                   loopVars, frameVars, shiftVars>>

\* MeasureShift measuring on the corrected pixel data, not on the raw file.
MeasureShiftOnData ==
    /\ pc = "measure"
    /\ \E s \in ShiftSet :
          /\ shift' = s
          /\ sx' \in Round2(s.x)
          /\ sy' \in Round2(s.y)
          /\ trace' = Append(trace, Call("measure_shift", filename,
                                         [aligner |-> d, image |-> [corrected |-> data]], s))
    /\ pc' = "gate"
    /\ UNCHANGED <<cfgVars, fs, ds9Vars, location, apVars, d, images, calVars,
                   loopVars, frameVars>>

\* MeasureShift building a new aligner for every frame.
MeasureShiftRebuilds ==
    /\ pc = "measure"
    /\ \E s \in ShiftSet :
          /\ shift' = s
          /\ sx' \in Round2(s.x)
          /\ sy' \in Round2(s.y)
          /\ trace' = trace \o
               << Call("Donuts", 0, "reference_image", "Donuts(reference_image)"),
                  Call("measure_shift", filename,
                       [aligner |-> d, image |-> RawFile(filename)], s) >>
    /\ pc' = "gate"
    /\ UNCHANGED <<cfgVars, fs, ds9Vars, location, apVars, d, images, calVars,
                   loopVars, frameVars>>

\* Lines 137-140: measure the shift of the raw file and round it.
MeasureShift ==
    /\ pc = "measure"
    /\ \E s \in ShiftSet :
          /\ shift' = s
          /\ sx' \in Round2(s.x)
          /\ sy' \in Round2(s.y)
          /\ trace' = Append(trace, Call("measure_shift", filename,
                                         [aligner |-> d, image |-> RawFile(filename)], s))
    /\ pc' = "gate"
    /\ UNCHANGED <<cfgVars, fs, ds9Vars, location, apVars, d, images, calVars,
                   loopVars, frameVars>>

\* Lines 141-143: check for big shifts.
Gate ==
    /\ pc = "gate"
    /\ IF GateRejects(sx, sy, night_config.max_donuts_shift)
       THEN /\ pc' = "reject"
            /\ trace' = Append(trace, Call("gate", filename,
                                           [sx |-> sx, sy |-> sy], "reject"))
       ELSE /\ pc' = "phot"
            /\ trace' = Append(trace, Call("gate", filename,
                                           [sx |-> sx, sy |-> sy], "accept"))
    /\ UNCHANGED <<cfgVars, fs, ds9Vars, location, apVars, d, images, calVars,
                   loopVars, frameVars, shiftVars>>

\* RejectCalls without the os.path.exists test: os.mkdir for every rejection.
RejectCallsAlwaysMkdir(moved) ==
    << Call("print", filename, [sx |-> sx, sy |-> sy], None),
       Call("os.mkdir", filename, "failed_donuts", None),
       Call("os.system", filename,
            [comm |-> "mv", file |-> filename, to |-> "failed_donuts/"],
            IF moved THEN "0" ELSE "1") >>

\* The calls of the rejection branch, lines 144-149: the report of the rounded
\* shift, os.mkdir when os.path.exists('failed_donuts') is false, and the mv
\* command, which exits with 0 when it moved the file.
RejectCalls(moved) ==
    << Call("print", filename, [sx |-> sx, sy |-> sy], None) >>
    \o (IF ~fs.failed_donuts
        THEN << Call("os.mkdir", filename, "failed_donuts", None) >>
        ELSE <<>>)
    \o << Call("os.system", filename,
               [comm |-> "mv", file |-> filename, to |-> "failed_donuts/"],
               IF moved THEN "0" ELSE "1") >>

\* Reject looking at the exit status of mv: a frame that could not be moved
\* is kept and goes on to photometry.
RejectChecksStatus ==
    /\ pc = "reject"
    /\ \E moved \in BOOLEAN :
          /\ fs' = [failed_donuts |-> TRUE,
                    moved |-> IF moved THEN fs.moved \cup {filename} ELSE fs.moved]
          /\ trace' = trace \o RejectCalls(moved)
          /\ pc' = IF moved THEN "loop" ELSE "phot"
    /\ UNCHANGED <<cfgVars, ds9Vars, location, apVars, d, images, calVars,
                   loopVars, frameVars, shiftVars>>

\* Reject with break in place of continue: the first rejection ends the loop.
RejectBreaks ==
    /\ pc = "reject"
    /\ \E moved \in BOOLEAN :
          /\ fs' = [failed_donuts |-> TRUE,
                    moved |-> IF moved THEN fs.moved \cup {filename} ELSE fs.moved]
          /\ trace' = trace \o RejectCalls(moved)
    /\ pc' = "done"
    /\ UNCHANGED <<cfgVars, ds9Vars, location, apVars, d, images, calVars,
                   loopVars, frameVars, shiftVars>>

\* Reject without its continue statement: the frame falls through to phot.
RejectFallsThrough ==
    /\ pc = "reject"
    /\ \E moved \in BOOLEAN :
          /\ fs' = [failed_donuts |-> TRUE,
                    moved |-> IF moved THEN fs.moved \cup {filename} ELSE fs.moved]
          /\ trace' = trace \o RejectCalls(moved)
    /\ pc' = "phot"
    /\ UNCHANGED <<cfgVars, ds9Vars, location, apVars, d, images, calVars,
                   loopVars, frameVars, shiftVars>>

\* Lines 144-150: report the frame, make failed_donuts if it is not there,
\* run mv (its exit status is not looked at) and continue with the next file.
Reject ==
    /\ pc = "reject"
    /\ \E moved \in BOOLEAN :
          /\ fs' = [failed_donuts |-> TRUE,
                    moved |-> IF moved THEN fs.moved \cup {filename} ELSE fs.moved]
          /\ trace' = trace \o RejectCalls(moved)
    /\ pc' = "loop"
    /\ UNCHANGED <<cfgVars, ds9Vars, location, apVars, d, images, calVars,
                   loopVars, frameVars, shiftVars>>

\* PhotArgs passing the rounded shift (sx, sy) in place of shift.
PhotArgsRounded ==
    [data |-> data, shift |-> [x |-> sx, y |-> sy], x |-> x, y |-> y,
     rsi |-> rsi, rso |-> rso,
     filename |-> filename, jd |-> jd, bjd |-> bjd, hjd |-> hjd,
     ds9_name |-> ds9_window_id, gain |-> "0.4", draw_regions |-> draw_regions]

\* PhotArgs passing the rounded shift when the regions are drawn.
PhotArgsRoundedWhenDrawn ==
    [data |-> data,
     shift |-> IF draw_regions THEN [x |-> sx, y |-> sy] ELSE shift,
     x |-> x, y |-> y, rsi |-> rsi, rso |-> rso,
     filename |-> filename, jd |-> jd, bjd |-> bjd, hjd |-> hjd,
     ds9_name |-> ds9_window_id, gain |-> "0.4", draw_regions |-> draw_regions]

\* The arguments of the j.photometry.phot call of lines 153-156.
PhotArgs ==
    [data |-> data, shift |-> shift, x |-> x, y |-> y, rsi |-> rsi, rso |-> rso,
     filename |-> filename, jd |-> jd, bjd |-> bjd, hjd |-> hjd,
     ds9_name |-> ds9_window_id, gain |-> "0.4", draw_regions |-> draw_regions]

\* PhotReturns moving the apertures by the frame's shift for the next frame.
PhotMovesApertures ==
    /\ pc = "phot"
    /\ trace' = Append(trace, Call("phot", filename, PhotArgs, None))
    /\ x' = [i \in DOMAIN x |-> x[i] + sx]
    /\ y' = [i \in DOMAIN y |-> y[i] + sy]
    /\ pc' = "loop"
    /\ UNCHANGED <<cfgVars, fs, ds9Vars, location, rsi, rso, d, images, calVars,
                   loopVars, frameVars, shiftVars>>

\* Lines 152-158: photometry on a good image.
PhotReturns ==
    /\ pc = "phot"
    /\ trace' = Append(trace, Call("phot", filename, PhotArgs, None))
    /\ pc' = "loop"
    /\ UNCHANGED <<cfgVars, fs, ds9Vars, location, apVars, d, images, calVars,
                   loopVars, frameVars, shiftVars>>

\* Lines 152-156 when phot raises: nothing catches it, the script ends.
PhotRaises ==
    /\ pc = "phot"
    /\ trace' = Append(trace, Call("phot", filename, PhotArgs, "PhotometryError"))
    /\ pc' = "crashed"
    /\ UNCHANGED <<cfgVars, fs, ds9Vars, location, apVars, d, images, calVars,
                   loopVars, frameVars, shiftVars>>

\* ------------------------------------------------------- specifications

Setup ==
    \/ SetupDS9 \/ SetupLocation \/ ReadRegionFile \/ Recenter \/ InitDonuts
    \/ GetImageList \/ MakeMasterDark \/ MakeMasterFlat \/ FilesFiltered

\* Every step the script can take, a collaborator's exception included.
Next ==
    \/ Setup
    \/ LoopHead \/ CorrectReturns \/ CorrectRaises \/ MeasureShift \/ Gate
    \/ Reject \/ PhotReturns \/ PhotRaises

Spec == Init /\ [][Next]_vars

\* The steps of a run in which every collaborator call returns.
NextReturns ==
    \/ Setup
    \/ LoopHead \/ CorrectReturns \/ MeasureShift \/ Gate \/ Reject \/ PhotReturns

\* Such a run: the interpreter runs the script's next statement as long as
\* there is one.
SpecReturns == Init /\ [][NextReturns]_vars /\ WF_vars(NextReturns)

\* ----------------------------------------- two runs on the same inputs

\* A call with the arguments that only serve the display left out.
NoDisplayArgs(e) ==
    [op   |-> e.op,
     file |-> e.file,
     args |-> IF e.op = "phot"
              THEN [k \in DOMAIN e.args \ {"ds9_name", "draw_regions"} |-> e.args[k]]
              ELSE e.args,
     ret  |-> e.ret]

\* The calls of trace t that are not calls of the display, in order.
NoDisplay(t) ==
    LET NotDisplay(e) == e.op \notin {"ds9.setup", "ds9.display", "sleep"}
        es == SelectSeq(t, NotDisplay)
    IN  [i \in 1..Len(es) |-> NoDisplayArgs(es[i])]

\* Two calls ask the same thing of the same collaborator.
SameCall(a, b) == a.op = b.op /\ a.file = b.file /\ a.args = b.args

\* The inputs of the second run are those of the first: in a step of the
\* second run, a collaborator asked what it was asked in the first run
\* answers the same (the files, the reference image and the outcome of mv
\* have not changed), and round() gives a measured shift the rounding it
\* gave it in the first run, which is what the gate call that follows
\* measure_shift received.
SameAnswers ==
    run1.n = 2 =>
        \A i \in (Len(trace) + 1)..Len(trace') :
            LET e == NoDisplayArgs(trace'[i])
            IN  \A j \in 1..Len(run1.trace) :
                    LET f == NoDisplayArgs(run1.trace[j])
                    IN  /\ SameCall(e, f) => e.ret = f.ret
                        /\ (/\ e.op = "measure_shift" /\ f.op = "measure_shift"
                            /\ e.file = f.file /\ e.ret = f.ret
                            /\ j < Len(run1.trace))
                           => run1.trace[j + 1].args = [sx |-> sx', sy |-> sy']

\* After a run without DS9, the same night is reduced again with DS9 on: the
\* working directory is put back as it was and the script starts afresh.
SecondRun ==
    /\ pc \in {"done", "crashed"}
    /\ run1.n = 1
    /\ ~night_config.ds9
    /\ run1' = [n |-> 2, fs0 |-> run1.fs0, trace |-> trace, pc |-> pc, fs |-> fs]
    /\ night_config' = [night_config EXCEPT !.ds9 = TRUE]
    /\ fs' = run1.fs0
    /\ disk' = disk
    /\ pc' = "start"
    /\ ds9' = FALSE /\ ds9_window_id' = Unset /\ draw_regions' = FALSE
    /\ location' = Unset
    /\ x' = <<>> /\ y' = <<>> /\ rsi' = <<>> /\ rso' = <<>>
    /\ d' = Unset
    /\ images' = <<>>
    /\ master_dark' = Unset /\ dark_exp' = Unset /\ master_flat' = Unset
    /\ files' = <<>> /\ idx' = 0 /\ filename' = 0
    /\ data' = NoData /\ jd' = NoTime("jd") /\ bjd' = NoTime("bjd") /\ hjd' = NoTime("hjd")
    /\ shift' = [x |-> 0, y |-> 0] /\ sx' = 0 /\ sy' = 0
    /\ trace' = <<>>

\* One run, or a run without DS9 followed by a run with DS9 on the same
\* inputs.
NextTwice ==
    \/ Next /\ SameAnswers
    \/ SecondRun

SpecTwice == Init /\ [][NextTwice]_vars

\* ------------------------------------------------- reading the call trace

\* The positions in the trace of the calls of op, and of those for file f.
Idx(op) == {i \in 1..Len(trace) : trace[i].op = op}
IdxOf(op, f) == {i \in Idx(op) : trace[i].file = f}

\* The frames the loop has selected so far, in order of selection.
Selected == SubSeq(files, 1, idx)

\* The frame selected as the k-th has left the loop body (the next frame has
\* been selected, or the script is back at the for statement or past it).
Finished(k) == k < idx \/ (k = idx /\ pc \in {"loop", "done"})

\* The gate's decision for file f: "accept", "reject", or "none" before it.
Decision(f) ==
    IF IdxOf("gate", f) = {} THEN "none"
    ELSE trace[CHOOSE i \in IdxOf("gate", f) : TRUE].ret

\* ------------------------------------------------------------------ C1

\* C1: for every frame, the gate accepts iff abs(shift.x) <= maxShift and
\* abs(shift.y) <= maxShift, for the shift the aligner measured (each axis on
\* its own, the boundary accepted), whatever the measured value.
C1_GateComparesMeasuredShift ==
    \A i \in Idx("gate") :
        \A m \in IdxOf("measure_shift", trace[i].file) :
            LET s == trace[m].ret
            IN  (trace[i].ret = "accept")
                <=> (/\ Abs(s.x) <= night_config.max_donuts_shift
                     /\ Abs(s.y) <= night_config.max_donuts_shift)

\* ------------------------------------------------------------------ C2

\* C2: a rejected frame is never passed to phot; an accepted frame is passed
\* to phot exactly once before the next frame is selected (and no frame is
\* ever passed to it twice).
C2_PhotIffAccepted ==
    \A k \in 1..idx :
        LET f == files[k]
            n == Cardinality(IdxOf("phot", f))
        IN  /\ Decision(f) = "reject" => n = 0
            /\ Decision(f) = "none" => n = 0
            /\ Decision(f) = "accept" => n <= 1
            /\ (Decision(f) = "accept" /\ Finished(k)) => n = 1

\* A finished run in which one frame was rejected and a later one accepted
\* and photometered.
C2_Witness ==
    /\ pc = "done"
    /\ \E j, k \in 1..idx :
          /\ j < k
          /\ Decision(files[j]) = "reject"
          /\ Decision(files[k]) = "accept"
          /\ IdxOf("phot", files[k]) # {}

\* ------------------------------------------------------------------ C3

\* C3: every phot call gets the shift that measure_shift returned for that
\* same file (unrounded, not an earlier frame's) and the pixel data and
\* JD/BJD/HJD that correct_data_osc returned for that same file.
C3_PhotGetsThisFramesValues ==
    \A i \in Idx("phot") :
        LET f == trace[i].file
            a == trace[i].args
        IN  /\ a.filename = f
            /\ Cardinality(IdxOf("measure_shift", f)) = 1
            /\ Cardinality(IdxOf("correct_data_osc", f)) = 1
            /\ \A m \in IdxOf("measure_shift", f) : m < i /\ a.shift = trace[m].ret
            /\ \A c \in IdxOf("correct_data_osc", f) :
                  /\ c < i
                  /\ a.data = trace[c].ret.data
                  /\ a.jd = trace[c].ret.jd
                  /\ a.bjd = trace[c].ret.bjd
                  /\ a.hjd = trace[c].ret.hjd

\* The second frame is photometered with a shift that rounding would change
\* and that differs from the first frame's.
C3_Witness ==
    \E i, j \in Idx("phot") :
        /\ i < j
        /\ trace[j].args.shift # trace[i].args.shift
        /\ trace[j].args.shift.x % 10 # 0
        /\ trace[j].args.data # trace[i].args.data

\* ------------------------------------------------------------------ C4

\* The aperture set, and the positions of the script inside the loop.
ApertureSet == <<x, y, rsi, rso>>
LoopPcs == {"loop", "correct", "measure", "gate", "reject", "phot", "done", "crashed"}

\* C4: the aperture set is read once, changes only while it is set up (the
\* region-file read and the recentering, each at most once), no step from the
\* loop's start on changes it, and every phot call of a run gets the same
\* positions and radii, those the script holds.
C4_ApertureSetFixedInLoop ==
    /\ [](/\ Cardinality(Idx("read_region_file")) <= 1
          /\ Cardinality(Idx("recenter_stars")) <= 1
          /\ \A i \in Idx("phot") :
                <<trace[i].args.x, trace[i].args.y,
                  trace[i].args.rsi, trace[i].args.rso>> = ApertureSet)
    /\ [][/\ ApertureSet' # ApertureSet => pc \in {"region", "recenter"}
          /\ pc \in LoopPcs => ApertureSet' = ApertureSet]_vars

\* Two frames photometered after different measured shifts, the first shift
\* not zero.
C4_Witness ==
    \E i, j \in Idx("phot") :
        /\ i < j
        /\ trace[i].args.shift # [x |-> 0, y |-> 0]
        /\ trace[i].args.shift # trace[j].args.shift

\* ------------------------------------------------------------------ C5

\* The script is past the aperture set-up of lines 76-84.
PastRecenter == pc \notin {"start", "location", "region", "recenter"}

\* C5: when defocused, source_extract and recenter_stars are never called and
\* phot gets the region file's positions; when not, each is called exactly
\* once and the positions used afterwards are those recenter_stars returned,
\* the radii still the region file's.
C5_RecenterIffNotDefocused ==
    /\ night_config.defocused =>
          /\ Idx("source_extract") = {} /\ Idx("recenter_stars") = {}
          /\ \A i \in Idx("phot") : \A r \in Idx("read_region_file") :
                /\ trace[i].args.x = trace[r].ret.x
                /\ trace[i].args.y = trace[r].ret.y
    /\ (~night_config.defocused /\ PastRecenter) =>
          /\ Cardinality(Idx("source_extract")) = 1
          /\ Cardinality(Idx("recenter_stars")) = 1
          /\ \A c \in Idx("recenter_stars") :
                /\ x = trace[c].ret.x /\ y = trace[c].ret.y
                /\ \A i \in Idx("phot") :
                      /\ trace[i].args.x = trace[c].ret.x
                      /\ trace[i].args.y = trace[c].ret.y
          /\ \A r \in Idx("read_region_file") :
                /\ rsi = trace[r].ret.rsi /\ rso = trace[r].ret.rso
                /\ \A i \in Idx("phot") :
                      /\ trace[i].args.rsi = trace[r].ret.rsi
                      /\ trace[i].args.rso = trace[r].ret.rso

\* A frame photometered at recentered positions that differ from the region
\* file's.
C5_Witness ==
    /\ ~night_config.defocused
    /\ \E i \in Idx("phot") : \E r \in Idx("read_region_file") :
          trace[i].args.x # trace[r].ret.x

\* ------------------------------------------------------------------ C6

\* C6: the aperture set-up completes once before the aligner is built, the
\* aligner is built exactly once before any measure_shift call, every
\* measure_shift call is made on the built aligner, and the loop never
\* builds it again.
C6_SetupBeforeAlignerBeforeMeasure ==
    /\ Cardinality(Idx("Donuts")) <= 1
    /\ Cardinality(Idx("read_region_file")) <= 1
    /\ pc \in (LoopPcs \cup {"image_list", "dark", "flat", "loop_init"}) =>
          /\ Cardinality(Idx("Donuts")) = 1
          /\ Cardinality(Idx("read_region_file")) = 1
          /\ d = "Donuts(reference_image)"
    /\ \A b \in Idx("Donuts") :
          /\ \A r \in Idx("read_region_file") \cup Idx("source_extract")
                       \cup Idx("recenter_stars") : r < b
          /\ ~night_config.defocused => Idx("recenter_stars") # {}
          /\ \A m \in Idx("measure_shift") : b < m
    /\ \A m \in Idx("measure_shift") :
          /\ Idx("Donuts") # {}
          /\ trace[m].args.aligner = "Donuts(reference_image)"

\* Two frames measured on the aligner built after a recentering.
C6_Witness ==
    /\ Cardinality(Idx("measure_shift")) >= 2
    /\ Idx("recenter_stars") # {}

\* ------------------------------------------------------------------ C7

\* The script is past the construction of both masters.
PastMasters == pc \in LoopPcs \cup {"loop_init"}

\* C7: the master dark and the master flat are each built exactly once, the
\* dark first and handed (with its exposure time) to the flat builder, both
\* from the whole image list and before the first correction; in the loop
\* master_dark, master_flat and dark_exp keep the values built, so every
\* correction call gets the same masters.
C7_MastersBuiltOnceBeforeLoop ==
    /\ Cardinality(Idx("make_master_dark_osc")) <= 1
    /\ Cardinality(Idx("make_master_flat_osc")) <= 1
    /\ PastMasters =>
          /\ Cardinality(Idx("make_master_dark_osc")) = 1
          /\ Cardinality(Idx("make_master_flat_osc")) = 1
    /\ \A k \in Idx("make_master_dark_osc") : trace[k].args.images = disk
    /\ \A f \in Idx("make_master_flat_osc") :
          /\ trace[f].args.images = disk
          /\ Idx("make_master_dark_osc") # {}
          /\ \A k \in Idx("make_master_dark_osc") :
                /\ k < f
                /\ trace[f].args.master_dark = trace[k].ret.master_dark
                /\ trace[f].args.dark_exp = trace[k].ret.dark_exp
                /\ PastMasters =>
                      /\ master_dark = trace[k].ret.master_dark
                      /\ dark_exp = trace[k].ret.dark_exp
                      /\ master_flat = trace[f].ret
    /\ \A c \in Idx("correct_data_osc") :
          /\ Idx("make_master_dark_osc") # {} /\ Idx("make_master_flat_osc") # {}
          /\ \A k \in Idx("make_master_dark_osc") :
                /\ k < c
                /\ trace[c].args.master_dark = trace[k].ret.master_dark
                /\ trace[c].args.dark_exp = trace[k].ret.dark_exp
          /\ \A f \in Idx("make_master_flat_osc") :
                /\ f < c
                /\ trace[c].args.master_flat = trace[f].ret

\* Two frames corrected with a master dark and a master flat that were built.
C7_Witness ==
    /\ Cardinality(Idx("correct_data_osc")) >= 2
    /\ master_dark # None /\ master_flat # None
    /\ \A c \in Idx("correct_data_osc") : trace[c].args.master_dark = "master_dark"

\* ------------------------------------------------------------------ C8

\* C8: an absent master stops nothing: the flat builder is still called with
\* the absent dark; with a master absent the loop runs over the whole
\* filtered list and every selected frame's correction is called with the
\* absent master passed as it is; the script ends early only when a
\* collaborator raised.
C8_AbsentMasterPassedThrough ==
    /\ (master_dark = None /\ PastMasters) =>
          \E f \in Idx("make_master_flat_osc") : trace[f].args.master_dark = None
    /\ ((master_dark = None \/ master_flat = None) /\ pc \in LoopPcs) =>
          /\ files = files_filtered(disk, image_keyword, NightFilter)
          /\ pc = "done" => idx = Len(files)
          /\ pc = "crashed" =>
                LET last == trace[Len(trace)]
                IN  \/ last.op = "correct_data_osc" /\ last.ret = CorrectionError
                    \/ last.op = "phot" /\ last.ret = "PhotometryError"
          /\ \A k \in 1..idx :
                (k < idx \/ pc # "correct") =>
                    /\ Cardinality(IdxOf("correct_data_osc", files[k])) = 1
                    /\ \A c \in IdxOf("correct_data_osc", files[k]) :
                          /\ trace[c].args.master_dark = master_dark
                          /\ trace[c].args.master_flat = master_flat
                          /\ trace[c].args.dark_exp = dark_exp

\* A finished run without master dark and without master flat in which two
\* frames were corrected.
C8_Witness ==
    /\ pc = "done"
    /\ master_dark = None /\ master_flat = None
    /\ Cardinality(Idx("correct_data_osc")) >= 2
    /\ \A c \in Idx("correct_data_osc") :
          trace[c].args.master_dark = None /\ trace[c].args.master_flat = None

\* ------------------------------------------------------------------ C9

\* The calls made for file f, in order, the display of the raw frame and the
\* report of a rejection left out.
StagesOf(f) ==
    LET IsStage(e) == e.file = f /\ e.op \notin {"ds9.display", "print"}
        es == SelectSeq(trace, IsStage)
    IN  [i \in 1..Len(es) |-> es[i].op]

\* The stage sequences of a frame that reached PHOTOMETERED or SKIPPED.
CoreStages == <<"correct_data_osc", "measure_shift", "gate">>
Photometered == CoreStages \o <<"phot">>
Skipped == {CoreStages \o <<"os.system">>, CoreStages \o <<"os.mkdir", "os.system">>}

IsPrefix(p, q) == Len(p) <= Len(q) /\ p = SubSeq(q, 1, Len(p))

\* The file of every call made for a frame, in the order of the calls.
FrameCalls ==
    LET ForFrame(e) == e.file # 0
        es == SelectSeq(trace, ForFrame)
    IN  [i \in 1..Len(es) |-> es[i].file]

\* C9: each selected frame goes through correction, shift measurement and
\* the gate in that order and then through photometry (accepted) or the
\* quarantine (rejected); the shift is measured on the raw file; and a frame
\* has reached its last stage before any call is made for the next frame.
C9_StagesInOrder ==
    /\ \A k \in 1..idx :
          LET st == StagesOf(files[k])
          IN  /\ \E full \in {Photometered} \cup Skipped : IsPrefix(st, full)
              /\ Decision(files[k]) = "accept" => IsPrefix(st, Photometered)
              /\ Decision(files[k]) = "reject" =>
                    \E full \in Skipped : IsPrefix(st, full)
              /\ Finished(k) => st \in {Photometered} \cup Skipped
    /\ \A m \in Idx("measure_shift") : trace[m].args.image = RawFile(trace[m].file)
    /\ LET calls == FrameCalls
       IN  \A i \in 1..(Len(calls) - 1) :
               \E a, b \in 1..idx :
                   /\ a <= b
                   /\ files[a] = calls[i]
                   /\ files[b] = calls[i + 1]
    /\ \A f \in {trace[i].file : i \in 1..Len(trace)} \ {0} :
          \E k \in 1..idx : files[k] = f

\* A finished run of two frames, the first skipped and the second
\* photometered.
C9_Witness ==
    /\ pc = "done" /\ idx = 2
    /\ StagesOf(files[1]) \in Skipped
    /\ StagesOf(files[2]) = Photometered

\* ------------------------------------------------------------------ C10

\* The files that reached PHOTOMETERED or SKIPPED, in the order they did.
TerminalFiles ==
    LET IsTerminal(e) == e.op \in {"phot", "os.system"}
        es == SelectSeq(trace, IsTerminal)
    IN  [i \in 1..Len(es) |-> es[i].file]

\* C10: when every collaborator call returns, the loop ends, and by then
\* every frame of the filtered science list (image type the science keyword,
\* filter the night's) has been corrected once and has reached PHOTOMETERED
\* or SKIPPED once, in the list's order, however many frames were rejected.
C10_EveryFrameProcessedOnce ==
    /\ <>(pc = "done")
    /\ [](pc = "done" =>
            /\ TerminalFiles = files_filtered(disk, image_keyword, NightFilter)
            /\ \A k \in 1..Len(TerminalFiles) :
                  /\ disk[TerminalFiles[k]].imagetyp = image_keyword
                  /\ disk[TerminalFiles[k]].filter = NightFilter
                  /\ Cardinality(IdxOf("correct_data_osc", TerminalFiles[k])) = 1
            /\ \A k \in 1..Len(disk) :
                  (disk[k].imagetyp = image_keyword /\ disk[k].filter = NightFilter)
                  => \E j \in 1..Len(TerminalFiles) : TerminalFiles[j] = k)

\* A finished run in which the first frame was rejected and the next frame
\* was photometered all the same.
C10_Witness ==
    /\ pc = "done"
    /\ Len(TerminalFiles) >= 2
    /\ Decision(TerminalFiles[1]) = "reject"
    /\ Decision(TerminalFiles[2]) = "accept"

\* ------------------------------------------------------------------ C11

\* C11: failed_donuts is made at most once in a run: in the iteration of the
\* first rejected frame when it is not there, never in a run without a
\* rejected frame, never while it is there (whether it was there before the
\* run or was made by an earlier rejection); and every mv is issued with the
\* directory there.
C11_QuarantineDirMadeOnce ==
    /\ [](/\ Cardinality(Idx("os.mkdir")) <= 1
          /\ (\A k \in 1..idx : Decision(files[k]) # "reject") => Idx("os.mkdir") = {}
          /\ \A m \in Idx("os.mkdir") :
                /\ Decision(trace[m].file) = "reject"
                /\ \A g \in Idx("gate") :
                      (g < m /\ trace[g].ret = "reject") => trace[g].file = trace[m].file
                /\ \A i \in Idx("os.system") : m < i
          /\ Idx("os.system") # {} => fs.failed_donuts)
    /\ [][/\ fs.failed_donuts =>
                /\ fs'.failed_donuts
                /\ Idx("os.mkdir")' = Idx("os.mkdir")
          /\ (pc = "reject" /\ ~fs.failed_donuts) =>
                /\ fs'.failed_donuts
                /\ \E m \in Idx("os.mkdir")' :
                      m > Len(trace) /\ trace'[m].file = filename
          /\ \A i \in Idx("os.system")' :
                i > Len(trace) =>
                    (fs.failed_donuts \/ \E m \in Idx("os.mkdir")' : m < i)]_vars

\* Two frames were rejected and the directory was made for the first of them.
C11_Witness ==
    /\ Cardinality(Idx("os.system")) = 2
    /\ Cardinality(Idx("os.mkdir")) = 1
    /\ \A m \in Idx("os.mkdir") : trace[m].file = files[1]

\* ------------------------------------------------------------------ C12

\* C12: a PhotometryError raised by phot for one frame does not abort the
\* run: the script goes on to the frames after the failing one.
C12_PhotometryErrorDoesNotAbort ==
    \A i \in Idx("phot") :
        trace[i].ret = "PhotometryError" =>
            /\ pc # "crashed"
            /\ (pc = "done" =>
                  \A k \in 1..Len(files) : IdxOf("correct_data_osc", files[k]) # {})

\* ------------------------------------------------------------------ C13

\* The positions of the correct_data_osc calls that raised.
CorrectionErrors ==
    {c \in Idx("correct_data_osc") : trace[c].ret = CorrectionError}

\* C13: a CorrectionError ends the run: the call that raised is the last
\* call of the run, so the failing frame is not measured, gated, moved or
\* photometered and no later frame is selected; the masters, the aligner and
\* the aperture set are those the set-up produced.
C13_CorrectionErrorEndsRun ==
    \A c \in CorrectionErrors :
        LET f == trace[c].file
        IN  /\ pc = "crashed"
            /\ c = Len(trace)
            /\ idx >= 1 /\ f = files[idx] /\ filename = f
            /\ \A op \in {"measure_shift", "gate", "print", "os.mkdir",
                           "os.system", "phot"} : IdxOf(op, f) = {}
            /\ \A k \in Idx("make_master_dark_osc") :
                  /\ master_dark = trace[k].ret.master_dark
                  /\ dark_exp = trace[k].ret.dark_exp
            /\ \A k \in Idx("make_master_flat_osc") : master_flat = trace[k].ret
            /\ \A b \in Idx("Donuts") : d = trace[b].ret
            /\ \A r \in Idx("read_region_file") :
                  /\ rsi = trace[r].ret.rsi /\ rso = trace[r].ret.rso
                  /\ Idx("recenter_stars") = {} =>
                        x = trace[r].ret.x /\ y = trace[r].ret.y
            /\ \A r \in Idx("recenter_stars") :
                  x = trace[r].ret.x /\ y = trace[r].ret.y
            /\ Idx("make_master_dark_osc") # {} /\ Idx("make_master_flat_osc") # {}
            /\ Idx("Donuts") # {} /\ Idx("read_region_file") # {}

\* The correction of the first of two selected frames raised.
C13_Witness ==
    /\ CorrectionErrors # {}
    /\ Len(files) = 2 /\ idx = 1

\* ------------------------------------------------------------------ C15

\* The displays of the master frame written to `name`.
MasterDisplays(name) ==
    {i \in IdxOf("ds9.display", 0) : trace[i].args.what = name}

\* The script is past the construction of the master dark.
PastDark == PastMasters \/ pc = "flat"

\* C15: with DS9 on, every selected raw frame is displayed exactly once and
\* before its correction, whatever the gate decides later; a master is
\* displayed iff DS9 is on and the master was produced; the settle delay
\* comes only right after a master's display; with DS9 off there is no
\* display call at all.
C15_DisplayOnlyWhenEnabled ==
    /\ ~night_config.ds9 =>
          \A op \in {"ds9.setup", "ds9.display", "sleep"} : Idx(op) = {}
    /\ (night_config.ds9 /\ pc # "start") =>
          \A k \in 1..idx :
              /\ Cardinality(IdxOf("ds9.display", files[k])) = 1
              /\ \A v \in IdxOf("ds9.display", files[k]) :
                    \A c \in IdxOf("correct_data_osc", files[k]) : v < c
    /\ Cardinality(MasterDisplays("master_dark_filename")) <= 1
    /\ Cardinality(MasterDisplays("master_flat_filename")) <= 1
    /\ IF PastDark
       THEN MasterDisplays("master_dark_filename") # {}
            <=> (night_config.ds9 /\ master_dark # None)
       ELSE MasterDisplays("master_dark_filename") = {}
    /\ IF PastMasters
       THEN MasterDisplays("master_flat_filename") # {}
            <=> (night_config.ds9 /\ master_flat # None)
       ELSE MasterDisplays("master_flat_filename") = {}
    /\ \A i \in Idx("sleep") :
          /\ i > 1
          /\ trace[i - 1].op = "ds9.display"
          /\ trace[i - 1].file = 0
    /\ Cardinality(Idx("sleep")) = Cardinality(IdxOf("ds9.display", 0))

\* With DS9 on, no master dark but a master flat: the flat was displayed, a
\* frame was displayed and then rejected, another displayed and accepted.
C15_Witness ==
    /\ night_config.ds9 /\ pc = "done"
    /\ master_dark = None /\ master_flat # None
    /\ Cardinality(Idx("sleep")) = 1
    /\ \E j, k \in 1..idx :
          /\ Decision(files[j]) = "reject" /\ IdxOf("ds9.display", files[j]) # {}
          /\ Decision(files[k]) = "accept" /\ IdxOf("ds9.display", files[k]) # {}

\* ------------------------------------------------------------------ C16

\* C16: the gate decides on the shift rounded to 2 decimals: the values it
\* compares are roundings of the measured components, the frame is rejected
\* iff one of them is larger in absolute value than max_donuts_shift, equal
\* rounded pairs get equal decisions, and the report of a rejected frame
\* shows the rounded pair the decision was made on.
C16_GateDecidesOnRoundedShift ==
    /\ \A g \in Idx("gate") :
          LET a == trace[g].args
          IN  /\ \A m \in IdxOf("measure_shift", trace[g].file) :
                    /\ m < g
                    /\ a.sx \in Round2(trace[m].ret.x)
                    /\ a.sy \in Round2(trace[m].ret.y)
              /\ IdxOf("measure_shift", trace[g].file) # {}
              /\ (trace[g].ret = "reject")
                  <=> (\/ Abs(a.sx) > night_config.max_donuts_shift
                       \/ Abs(a.sy) > night_config.max_donuts_shift)
              /\ \A h \in Idx("gate") :
                    trace[h].args = a => trace[h].ret = trace[g].ret
    /\ \A p \in Idx("print") :
          /\ IdxOf("gate", trace[p].file) # {}
          /\ \A g \in IdxOf("gate", trace[p].file) :
                /\ g < p
                /\ trace[g].ret = "reject"
                /\ trace[p].args = trace[g].args
    /\ \A k \in 1..idx :
          (Decision(files[k]) = "reject" /\ Finished(k)) =>
              Cardinality(IdxOf("print", files[k])) = 1

\* One frame measured at 1.004 on an axis was accepted (rounded to 1.0), and
\* one measured on the rounding tie was rejected and reported at 1.01.
C16_Witness ==
    /\ \E g \in Idx("gate") : \E m \in IdxOf("measure_shift", trace[g].file) :
          /\ trace[m].ret.x = 1004
          /\ trace[g].args.sx = 1000
          /\ trace[g].ret = "accept"
    /\ \E p \in Idx("print") : \E m \in IdxOf("measure_shift", trace[p].file) :
          /\ trace[m].ret.y = -1005
          /\ trace[p].args.sy = -1010

\* ------------------------------------------------------------------ C17

\* The positions of the mv commands that did not move the file.
FailedMoves == {i \in Idx("os.system") : trace[i].ret # "0"}

\* C17: the mv command's exit status changes nothing: whether or not the
\* file was moved, the rejected frame is not photometered, the script does
\* not end there, and the loop goes on to the next frame.
C17_MoveStatusIgnored ==
    /\ \A i \in Idx("os.system") :
          LET f == trace[i].file
          IN  /\ IdxOf("phot", f) = {}
              /\ Decision(f) = "reject"
              /\ i = Len(trace) => pc \in {"loop", "correct", "done"}
              /\ (f \in fs.moved) <=> (trace[i].ret = "0")
    /\ pc = "done" =>
          \A k \in 1..Len(files) : IdxOf("correct_data_osc", files[k]) # {}
    /\ \A i \in FailedMoves :
          \A k \in 1..idx :
              (files[k] = trace[i].file /\ k < idx) =>
                  \A v \in IdxOf("correct_data_osc", files[k + 1]) : i < v

\* The mv of the first frame failed, and the second frame was corrected and
\* photometered after it.
C17_Witness ==
    /\ pc = "done"
    /\ \E i \in FailedMoves :
          /\ trace[i].file = files[1]
          /\ fs.moved = {}
          /\ \E v \in Idx("phot") : i < v

\* ------------------------------------------------------------------ C18

\* The frames the gate accepted so far.
Accepted == {k \in 1..idx : Decision(files[k]) = "accept"}

\* C18: every frame is corrected exactly once before the gate decides on it,
\* a rejected frame included, whose corrected data no phot call gets; in a
\* completed run there are as many correct_data_osc calls as selected frames
\* and as many phot calls as accepted frames.
C18_CorrectedBeforeGate ==
    /\ \A g \in Idx("gate") :
          /\ Cardinality(IdxOf("correct_data_osc", trace[g].file)) = 1
          /\ \A c \in IdxOf("correct_data_osc", trace[g].file) :
                /\ c < g
                /\ trace[c].ret # CorrectionError
                /\ trace[g].ret = "reject" =>
                      \A v \in Idx("phot") : trace[v].args.data # trace[c].ret.data
    /\ pc = "done" =>
          /\ idx = Len(files)
          /\ Cardinality(Idx("correct_data_osc")) = Len(files)
          /\ Cardinality(Idx("phot")) = Cardinality(Accepted)
          /\ Cardinality(Idx("gate")) = Len(files)

\* A completed run of two frames, one rejected and one accepted: two
\* corrections, one photometry.
C18_Witness ==
    /\ pc = "done"
    /\ Cardinality(Idx("correct_data_osc")) = 2
    /\ Cardinality(Idx("phot")) = 1
    /\ \E k \in 1..idx : Decision(files[k]) = "reject"

\* ------------------------------------------------------------------ C14

\* C14: a run with DS9 on, on the inputs of a run with DS9 off, makes the
\* same calls in the same order with the same arguments and results, the
\* calls of the display and phot's ds9_name and draw_regions aside: the same
\* frames in the same order, the same gate decisions, the same files moved,
\* the same data, shift, apertures and time stamps for phot; and it ends the
\* same way.
C14_DisplayIndependence ==
    run1.n = 2 =>
        LET p1 == NoDisplay(run1.trace)
            p2 == NoDisplay(trace)
        IN  /\ Len(p2) <= Len(p1)
            /\ \A i \in 1..Len(p2) :
                  /\ SameCall(p2[i], p1[i])
                  /\ p2[i].ret = p1[i].ret
            /\ pc \in {"done", "crashed"} =>
                  /\ Len(p2) = Len(p1)
                  /\ pc = run1.pc
                  /\ fs = run1.fs
            /\ \A i \in Idx("phot") :
                  /\ trace[i].args.ds9_name = "window_id"
                  /\ trace[i].args.draw_regions

\* The second run is over: with DS9 on it displayed frames, rejected one
\* frame and moved it, and photometered another, as the first run did.
C14_Witness ==
    /\ run1.n = 2 /\ pc = "done"
    /\ Idx("ds9.display") # {}
    /\ Idx("phot") # {}
    /\ fs.moved # {}
    /\ \E i \in 1..Len(run1.trace) :
          run1.trace[i].op = "phot" /\ ~run1.trace[i].args.draw_regions

====
